---- MODULE Spec2Model ----
(***************************************************************************)
(* State-machine model of homebridge-hue-transitions:                      *)
(*   - HueTransitionsPlatform (src/src/api.ts 295-601): bootstrap,         *)
(*     accessory registration, polling, cleanup;                           *)
(*   - HueSceneAccessory (src/src/sceneAccessory.ts): getOn, setOn,        *)
(*     handleSceneUpdate.                                                  *)
(* Every await of the source splits a handler into two actions: the part   *)
(* that runs up to the await, and the continuation that runs when the      *)
(* bridge call settles.  Everything between two awaits is one atomic step  *)
(* (single-threaded event loop).                                           *)
(***************************************************************************)
EXTENDS Integers, Sequences, FiniteSets, TLC

(* ------------------------------ bounds -------------------------------- *)
\* clock granularity: the 30 s window is TicksPerWindow clock steps long
TicksPerWindow == 2
\* the clock stops after MaxTicks steps
MaxTicks == 3
\* cap on simultaneously pending bridge calls of one kind (per accessory
\* for recallScene, per platform for the poll's getScenes)
MaxInFlight == 2
\* cap on simultaneously pending getScene calls issued by getOn
MaxGets == 1
\* cap on simultaneously pending reversion timers
MaxTimers == 1

(* ------------------------- program constants -------------------------- *)
ACTIVE_WINDOW == 30000
DEFAULT_INTERVAL == 60000
MIN_INTERVAL == 60000
MAX_INTERVAL == 300000
MIN_DURATION == 1
MAX_DURATION == 60
PLUGIN_NAME == "@jay-d-tyler/homebridge-hue-transitions"

Tick == ACTIVE_WINDOW \div TicksPerWindow

None == <<>>
Some(x) == <<x>>

Max(a, b) == IF a >= b THEN a ELSE b
Min(a, b) == IF a <= b THEN a ELSE b

(* ------------------------------ universe ------------------------------ *)
SceneIds == {"s1", "s2", "s3"}
\* the scenes the bridge may hold
BridgeIds == {"s1", "s2"}
Statuses == {"inactive", "static", "dynamic_palette", "none"}

\* api.hap.uuid.generate(`${PLUGIN_NAME}-${sceneConfig.id}`): deterministic
\* and injective on the scene id
Generate(id) == <<PLUGIN_NAME, id>>

\* a SceneConfig entry of config.scenes; "" stands for a missing (falsy)
\* field and isNull for a null entry
SC(id, name, d) == [id |-> id, name |-> name, transitionDuration |-> d, isNull |-> FALSE]
NullEntry == [id |-> "", name |-> "", transitionDuration |-> 0, isNull |-> TRUE]

\* the filter of discoverAndRegisterScenes: s && s.id && s.name
IsValidScene(s) == ~s.isNull /\ s.id # "" /\ s.name # ""

\* this.config.scenes.filter(s => s && s.id && s.name)
RECURSIVE ValidScenes(_)
ValidScenes(seq) ==
    IF seq = <<>> THEN <<>>
    ELSE IF IsValidScene(Head(seq)) THEN <<Head(seq)>> \o ValidScenes(Tail(seq))
         ELSE ValidScenes(Tail(seq))

Range(seq) == {seq[i] : i \in 1..Len(seq)}

\* the platform configurations the model starts from
Cfg(ip, key, scenes, interval) ==
    [bridgeIp |-> ip, apiKey |-> key, scenes |-> scenes, pollingInterval |-> interval]

\* an installation: the platform config and the scene ids of the accessories
\* the registry restores from its cache
Inst(cfg, cache) == [config |-> cfg, cached |-> cache]

\* installations with at most one valid configured scene
Installations ==
    { Inst(Cfg("10.0.0.2", "key",
               <<SC("s1", "", 30), SC("s2", "Two", 15), SC("", "Three", 5)>>,
               Some(500000)), {"s2", "s3"}),
      Inst(Cfg("", "key", <<SC("s2", "Two", 60), NullEntry>>, Some(30000)), {}),
      Inst(Cfg("10.0.0.2", "", <<SC("s1", "One", 30)>>, Some(60000)), {"s1"}),
      Inst(Cfg("", "", <<SC("s1", "One", 30)>>, Some(120000)), {}),
      Inst(Cfg("10.0.0.2", "key", <<>>, Some(300000)), {"s3"}),
      Inst(Cfg("10.0.0.2", "key", <<NullEntry, SC("s1", "One", 1)>>, None), {}) }

\* the installation followed through the passage of time: its bridge
\* address is configured
InstallationsTimed ==
    { Inst(Cfg("10.0.0.2", "key",
               <<SC("s1", "", 30), SC("s2", "Two", 15), SC("", "Three", 5)>>,
               Some(500000)), {"s2", "s3"}) }

\* installations with two valid configured scenes
InstallationsTwo ==
    { Inst(Cfg("", "key", <<SC("s1", "One", 1), SC("s2", "Two", 60)>>, None),
           {"s2", "s3"}) }

\* one installation for each valid transition duration
InstallationsDur ==
    { Inst(Cfg("10.0.0.2", "key", <<SC("s1", "One", d)>>, None), {}) :
        d \in MIN_DURATION..MAX_DURATION }

\* configured polling intervals: below, at and above both ends of the valid
\* range, and inside it
Intervals ==
    {-1, 0, 1, 30000, MIN_INTERVAL - 1, MIN_INTERVAL, MIN_INTERVAL + 1, 120000,
     MAX_INTERVAL - 1, MAX_INTERVAL, MAX_INTERVAL + 1, 500000}

\* one installation for each configured polling interval, and one with none
InstallationsInterval ==
    { Inst(Cfg("10.0.0.2", "key", <<SC("s1", "One", 1)>>, interval), {}) :
        interval \in {None} \cup {Some(i) : i \in Intervals} }

\* results of HueApiClient.discoverBridges(): a list of candidate addresses
DiscoveryResults == {<<>>, <<"10.0.0.7">>, <<"10.0.0.8", "10.0.0.7">>}

\* a bridge scene as far as the plugin reads it: id and status.active
BridgeScene(id, st) == [id |-> id, status |-> st]

RECURSIVE SeqsUpTo(_, _)
SeqsUpTo(S, n) ==
    IF n = 0 THEN {<<>>}
    ELSE LET shorter == SeqsUpTo(S, n - 1)
         IN shorter \cup {Append(q, x) : q \in shorter, x \in S}

DistinctIds(list) == \A i, j \in 1..Len(list) : list[i].id = list[j].id => i = j

\* scene lists getScenes() may resolve with
BridgeLists ==
    {l \in SeqsUpTo({BridgeScene(id, st) : id \in BridgeIds, st \in Statuses},
                    Cardinality(BridgeIds)) :
        DistinctIds(l)}

\* only a static scene counted as active
IsActiveStaticOnly(scene) == scene.status = "static"

\* status.active === 'static' || status.active === 'dynamic_palette'
IsActive(scene) == scene.status = "static" \/ scene.status = "dynamic_palette"

(* ------------------------------- state -------------------------------- *)
VARIABLES
    config,             \* HueTransitionsPlatform.config
    cached,             \* cached accessories the registry has yet to restore
    accessories,        \* Map uuid -> context.sceneId
    accessoryInstances, \* Map uuid -> sceneConfig of the HueSceneAccessory
    apiClient,          \* None or Some([bridgeIp, apiKey])
    pollingInterval,    \* None or Some(interval of the running timer)
    isPolling,          \* busy flag of pollSceneStatus
    listeners,          \* 'sceneUpdated' listeners, in registration order
    pc,                 \* position of discoverAndRegisterScenes
    pollFetches,        \* getScenes calls of poll ticks still unresolved
    shutdownDone,       \* the shutdown event has been handled
    bridge,             \* calls seen by the bridge / registry / timers so far
    isActivating,       \* per accessory instance
    lastActivated,      \* per accessory instance: None or Some(time)
    onValue,            \* Characteristic.On as last pushed by the plugin
    recalls,            \* per accessory: pending recallScene calls
    gets,               \* pending getScene calls issued by getOn
    timers,             \* pending reversion timers (setTimeout 100)
    now,                \* Date.now()
    hist,               \* per accessory: time of last successful recall, off since
    ev                  \* the last handler step and what it returned

vars == <<config, cached, accessories, accessoryInstances, apiClient, pollingInterval,
          isPolling, listeners, pc, pollFetches, shutdownDone, bridge,
          isActivating, lastActivated, onValue, recalls, gets, timers, now,
          hist, ev>>

platformVars == <<config, cached, accessories, accessoryInstances, apiClient,
                  pollingInterval, isPolling, listeners, pc, pollFetches,
                  shutdownDone, bridge>>
instanceVars == <<isActivating, lastActivated, recalls, gets, timers, hist>>

\* the record of one handler step:
\*   op, id     the handler and the accessory it belongs to
\*   val        the value written (setOn), returned (getOn) or pushed (revert)
\*   out        how the step ended: the call it now awaits, or how the
\*              awaited call settled
\*   raised     the handler threw HapStatusError to the registry
\*   result     the scene list getScenes resolved with, or the scene
\*              getScene resolved with
\*   emitted    the 'sceneUpdated' broadcasts of a poll, in order
\*   recent     getOn: called less than 30000 ms after the last successful
\*              activation; off: a write(false) was processed since then
\*   before     setOn: the value displayed when the write was called
\*   level, message   getOn: the log call made for a failed getScene
Ev(op, id, val, out) ==
    [op |-> op, id |-> id, val |-> val, out |-> out, raised |-> FALSE,
     result |-> <<>>, emitted |-> <<>>, recent |-> FALSE, off |-> FALSE,
     before |-> FALSE, level |-> "", message |-> ""]
EvGetOn(id, val, out, recent, off) ==
    [Ev("getOn", id, val, out) EXCEPT !.recent = recent, !.off = off]

\* discover: discoverBridges calls; built: clients constructed; registered,
\* unregistered: uuids passed to the registry; warned: the interval
\* correction was logged; liveIntervals: setInterval timers not cleared;
\* candidates: the addresses discoverBridges returned
NoCalls ==
    [discover |-> 0, built |-> <<>>, registered |-> <<>>, unregistered |-> {},
     warned |-> FALSE, liveIntervals |-> 0, candidates |-> <<>>]

InitWith(installations) ==
    /\ \E inst \in installations : config = inst.config /\ cached = inst.cached
    /\ accessories = [u \in {} |-> ""]
    /\ accessoryInstances = [u \in {} |-> NullEntry]
    /\ apiClient = None
    /\ pollingInterval = None
    /\ isPolling = FALSE
    /\ listeners = <<>>
    /\ pc = "constructed"
    /\ pollFetches = 0
    /\ shutdownDone = FALSE
    /\ bridge = NoCalls
    /\ isActivating = [id \in SceneIds |-> FALSE]
    /\ lastActivated = [id \in SceneIds |-> None]
    /\ onValue = [id \in SceneIds |-> FALSE]
    /\ recalls = [id \in SceneIds |-> <<>>]
    /\ gets = <<>>
    /\ timers = <<>>
    /\ now = 0
    /\ hist = [id \in SceneIds |-> [activatedAt |-> None, off |-> FALSE]]
    /\ ev = Ev("init", "", FALSE, "")

Init == InitWith(Installations)
InitTimed == InitWith(InstallationsTimed)
InitTwo == InitWith(InstallationsTwo)
InitDur == InitWith(InstallationsDur)
InitInterval == InitWith(InstallationsInterval)

(* ======================= HueTransitionsPlatform ======================= *)

\* configureAccessory: the registry restores a cached accessory before
\* didFinishLaunching
ConfigureAccessory(id) ==
    /\ pc = "constructed"
    /\ id \in cached
    /\ cached' = cached \ {id}
    /\ accessories' = [u \in DOMAIN accessories \cup {Generate(id)} |->
                          IF u = Generate(id) THEN id ELSE accessories[u]]
    /\ ev' = Ev("configureAccessory", id, FALSE, "")
    /\ UNCHANGED <<config, accessoryInstances, apiClient, pollingInterval,
                   isPolling, listeners, pc, pollFetches, shutdownDone, bridge>>
    /\ UNCHANGED <<instanceVars, onValue, now>>

\* the last address discoverBridges returned
LastCandidate(bridges) == bridges[Len(bridges)]

\* bridges[0].internalipaddress
FirstCandidate(bridges) == bridges[1]

\* initializeApiClient from the API key check on (api.ts 442-458), once the
\* bridge address ip is known: without a key the client stays null and
\* discoverAndRegisterScenes returns; with a key the client is built and
\* testConnection is awaited
AfterBridgeIp(ip, candidates) ==
    /\ config' = [config EXCEPT !.bridgeIp = ip]
    /\ IF config.apiKey = ""
       THEN /\ pc' = "done"
            /\ ev' = Ev("bootstrap", "", FALSE, "noApiKey")
            /\ UNCHANGED apiClient
            /\ bridge' = [bridge EXCEPT !.candidates = candidates]
       ELSE /\ apiClient' = Some([bridgeIp |-> ip, apiKey |-> config.apiKey])
            /\ bridge' = [bridge EXCEPT
                            !.built = Append(@, [bridgeIp |-> ip, apiKey |-> config.apiKey]),
                            !.candidates = candidates]
            /\ pc' = "test"
            /\ ev' = Ev("bootstrap", "", FALSE, "testConnection")

\* the didFinishLaunching handler: discoverAndRegisterScenes up to its first
\* await (discoverBridges, or testConnection when the address is configured)
DidFinishLaunching ==
    /\ pc = "constructed"
    /\ cached = {}
    /\ IF config.bridgeIp = ""
       THEN /\ pc' = "discover"
            /\ bridge' = [bridge EXCEPT !.discover = @ + 1]
            /\ ev' = Ev("bootstrap", "", FALSE, "discoverBridges")
            /\ UNCHANGED <<config, apiClient>>
       ELSE AfterBridgeIp(config.bridgeIp, <<>>)
    /\ UNCHANGED <<cached, accessories, accessoryInstances, pollingInterval,
                   isPolling, listeners, pollFetches, shutdownDone>>
    /\ UNCHANGED <<instanceVars, onValue, now>>

\* discoverBridges() settles: it throws, or returns the candidate list
DiscoverSettles ==
    /\ pc = "discover"
    /\ \/ /\ apiClient' = None
          /\ pc' = "done"
          /\ ev' = Ev("bootstrap", "", FALSE, "discoverFailed")
          /\ UNCHANGED <<config, bridge>>
       \/ \E bridges \in DiscoveryResults :
            IF Len(bridges) = 0
            THEN /\ pc' = "done"
                 /\ ev' = Ev("bootstrap", "", FALSE, "noBridge")
                 /\ UNCHANGED <<config, apiClient, bridge>>
            ELSE AfterBridgeIp(FirstCandidate(bridges), bridges)
    /\ UNCHANGED <<cached, accessories, accessoryInstances, pollingInterval,
                   isPolling, listeners, pollFetches, shutdownDone>>
    /\ UNCHANGED <<instanceVars, onValue, now>>

\* the client left in place when the connection test fails
ClientKept(isConnected, client) == client

\* the client after testConnection() returned isConnected (api.ts 460-464)
ClientAfterTest(isConnected, client) == IF isConnected THEN client ELSE None

\* testConnection() settles with isConnected and initializeApiClient
\* returns; discoverAndRegisterScenes returns if there is no client
\* (api.ts 357-360) and awaits getScenes() otherwise
TestConnectionSettles(isConnected) ==
    /\ pc = "test"
    /\ apiClient' = ClientAfterTest(isConnected, apiClient)
    /\ pc' = IF apiClient' = None THEN "done" ELSE "scenes"
    /\ ev' = Ev("bootstrap", "", FALSE,
                IF isConnected THEN "getScenes" ELSE "notConnected")
    /\ UNCHANGED <<config, cached, accessories, accessoryInstances,
                   pollingInterval, isPolling, listeners, pollFetches,
                   shutdownDone, bridge>>
    /\ UNCHANGED <<instanceVars, onValue, now>>

\* no accessory ever found in the map
AccessoryExistsNever(acc, uuid) == FALSE

\* this.accessories.get(uuid) is defined (api.ts 481-483)
AccessoryExists(acc, uuid) == uuid \in DOMAIN acc

\* registerScene (api.ts 476-504) on the registration state
\* reg = [accessories, accessoryInstances, listeners, registered]
RegisterScene(reg, sceneConfig, client) ==
    LET uuid == Generate(sceneConfig.id)
        exists == AccessoryExists(reg.accessories, uuid)
        acc == IF exists THEN reg.accessories
               ELSE reg.accessories @@ (uuid :> sceneConfig.id)
        registered == IF exists THEN reg.registered
                      ELSE Append(reg.registered, uuid)
    IN IF client # None
       THEN [accessories |-> acc,
             accessoryInstances |->
                 [u \in DOMAIN reg.accessoryInstances \cup {uuid} |->
                     IF u = uuid THEN sceneConfig ELSE reg.accessoryInstances[u]],
             listeners |-> Append(reg.listeners, sceneConfig.id),
             registered |-> registered]
       ELSE [reg EXCEPT !.accessories = acc, !.registered = registered]

\* the existence check always passing
SceneExistsAlways(allScenes, sceneConfig) == TRUE

\* allScenes.some(s => s.id === sceneConfig.id)
SceneExists(allScenes, sceneConfig) ==
    \E i \in 1..Len(allScenes) : allScenes[i].id = sceneConfig.id

\* the registration loop of discoverAndRegisterScenes (api.ts 382-393)
RECURSIVE RegisterConfigured(_, _, _, _)
RegisterConfigured(reg, validScenes, allScenes, client) ==
    IF validScenes = <<>> THEN reg
    ELSE LET sceneConfig == Head(validScenes)
         IN IF ~SceneExists(allScenes, sceneConfig)
            THEN RegisterConfigured(reg, Tail(validScenes), allScenes, client)
            ELSE RegisterConfigured(RegisterScene(reg, sceneConfig, client),
                                    Tail(validScenes), allScenes, client)

\* the uuids of the stale accessories (api.ts 398-407)
StaleUuids(acc, configuredSceneIds) ==
    {u \in DOMAIN acc : acc[u] \notin configuredSceneIds}

Restrict(f, S) == [x \in S |-> f[x]]

\* the interval clamped from below only
ValidIntervalNoMax(cfg) ==
    LET interval == IF cfg.pollingInterval = None THEN DEFAULT_INTERVAL
                    ELSE cfg.pollingInterval[1]
    IN Max(MIN_INTERVAL, interval)

\* the interval startPolling passes to setInterval (api.ts 514-520)
ValidInterval(cfg) ==
    LET interval == IF cfg.pollingInterval = None THEN DEFAULT_INTERVAL
                    ELSE cfg.pollingInterval[1]
    IN Max(MIN_INTERVAL, Min(MAX_INTERVAL, interval))

\* the guard without the busy flag
PollProceedsUnguarded(polling, client) == client # None

\* the guard of pollSceneStatus (api.ts 555): does this call go on to fetch?
PollProceeds(polling, client) == ~polling /\ client # None

\* the polling state startPolling and stopPolling work on
PollingState ==
    [pollingInterval |-> pollingInterval, isPolling |-> isPolling,
     pollFetches |-> pollFetches, warned |-> bridge.warned,
     liveIntervals |-> bridge.liveIntervals]

\* startPolling without the check for a running timer
StartPollingUnguarded(p, cfg, client) ==
    LET polls == PollProceeds(p.isPolling, client)
    IN [pollingInterval |-> Some(ValidInterval(cfg)),
        isPolling |-> p.isPolling \/ polls,
        pollFetches |-> IF polls THEN p.pollFetches + 1 ELSE p.pollFetches,
        warned |-> p.warned \/ ValidInterval(cfg) #
                      (IF cfg.pollingInterval = None THEN DEFAULT_INTERVAL
                       ELSE cfg.pollingInterval[1]),
        liveIntervals |-> p.liveIntervals + 1]

\* startPolling (api.ts 509-538): nothing when a timer runs; else the
\* warning, setInterval and the initial pollSceneStatus up to its await
StartPolling(p, cfg, client) ==
    IF p.pollingInterval # None THEN p
    ELSE LET polls == PollProceeds(p.isPolling, client)
         IN [pollingInterval |-> Some(ValidInterval(cfg)),
             isPolling |-> p.isPolling \/ polls,
             pollFetches |-> IF polls THEN p.pollFetches + 1 ELSE p.pollFetches,
             warned |-> p.warned \/ ValidInterval(cfg) #
                           (IF cfg.pollingInterval = None THEN DEFAULT_INTERVAL
                            ELSE cfg.pollingInterval[1]),
             liveIntervals |-> p.liveIntervals + 1]

\* stopPolling (api.ts 543-549)
StopPolling(p) ==
    IF p.pollingInterval # None
    THEN [p EXCEPT !.pollingInterval = None, !.liveIntervals = @ - 1]
    ELSE p

\* getScenes() of discoverAndRegisterScenes settles: it rejects, or resolves
\* with allScenes; then registration, stale removal, startPolling and the
\* initial poll up to its await (api.ts 363-416, 509-538, 554-563)
BootstrapScenesSettle ==
    /\ pc = "scenes"
    /\ pc' = "done"
    /\ \/ /\ ev' = Ev("bootstrap", "", FALSE, "rejected")
          /\ UNCHANGED <<accessories, accessoryInstances, pollingInterval,
                         isPolling, listeners, pollFetches, bridge>>
       \/ \E allScenes \in BridgeLists :
            LET validScenes == ValidScenes(config.scenes)
                configuredSceneIds == {s.id : s \in Range(validScenes)}
                reg == RegisterConfigured(
                           [accessories |-> accessories,
                            accessoryInstances |-> accessoryInstances,
                            listeners |-> listeners,
                            registered |-> bridge.registered],
                           validScenes, allScenes, apiClient)
                stale == StaleUuids(reg.accessories, configuredSceneIds)
                started == StartPolling(PollingState, config, apiClient)
            IN IF Len(validScenes) = 0
               THEN /\ ev' = [Ev("bootstrap", "", FALSE, "noScenes")
                                 EXCEPT !.result = allScenes]
                    /\ UNCHANGED <<accessories, accessoryInstances,
                                   pollingInterval, isPolling, listeners,
                                   pollFetches, bridge>>
               ELSE /\ accessories' = Restrict(reg.accessories, DOMAIN reg.accessories \ stale)
                    /\ accessoryInstances' =
                           Restrict(reg.accessoryInstances, DOMAIN reg.accessoryInstances \ stale)
                    /\ listeners' = reg.listeners
                    /\ bridge' = [bridge EXCEPT
                                    !.registered = reg.registered,
                                    !.unregistered = @ \cup stale,
                                    !.warned = started.warned,
                                    !.liveIntervals = started.liveIntervals]
                    /\ pollingInterval' = started.pollingInterval
                    /\ isPolling' = started.isPolling
                    /\ pollFetches' = started.pollFetches
                    /\ ev' = [Ev("bootstrap", "", FALSE, "ready")
                                 EXCEPT !.result = allScenes]
    /\ UNCHANGED <<config, cached, apiClient, shutdownDone>>
    /\ UNCHANGED <<instanceVars, onValue, now>>

\* the setInterval callback: pollSceneStatus up to its await
PollTimer ==
    /\ pollingInterval # None
    /\ IF PollProceeds(isPolling, apiClient)
       THEN /\ pollFetches < MaxInFlight
            /\ isPolling' = TRUE
            /\ pollFetches' = pollFetches + 1
            /\ ev' = Ev("poll", "", FALSE, "getScenes")
       ELSE /\ ev' = Ev("poll", "", FALSE, "skipped")
            /\ UNCHANGED <<isPolling, pollFetches>>
    /\ UNCHANGED <<config, cached, accessories, accessoryInstances, apiClient,
                   pollingInterval, listeners, pc, shutdownDone, bridge>>
    /\ UNCHANGED <<instanceVars, onValue, now>>

\* the update applied whatever scene the broadcast names
HandleSceneUpdateAny(val, lid, sceneId, isActive) == [val EXCEPT ![lid] = isActive]

\* handleSceneUpdate of the instance listening for scene lid
HandleSceneUpdate(val, lid, sceneId, isActive) ==
    IF sceneId = lid THEN [val EXCEPT ![lid] = isActive] ELSE val

\* this.emit('sceneUpdated', sceneId, isActive): the listeners run in
\* registration order
RECURSIVE Emit(_, _, _, _)
Emit(val, lis, sceneId, isActive) ==
    IF lis = <<>> THEN val
    ELSE Emit(HandleSceneUpdate(val, Head(lis), sceneId, isActive),
              Tail(lis), sceneId, isActive)

\* sceneMap.get(id): new Map(scenes.map(s => [s.id, s])), the last entry wins
SceneMapGet(scenes, id) ==
    LET hits == {i \in 1..Len(scenes) : scenes[i].id = id}
    IN IF hits = {} THEN None
       ELSE Some(scenes[CHOOSE i \in hits : \A j \in hits : j <= i])

\* the loop of pollSceneStatus over config.scenes (api.ts 569-576) on
\* st = [val, emitted, threw]; reading .id of a null entry throws
RECURSIVE PollLoop(_, _, _, _)
PollLoop(st, sceneConfigs, scenes, lis) ==
    IF sceneConfigs = <<>> THEN st
    ELSE LET sceneConfig == Head(sceneConfigs)
         IN IF sceneConfig.isNull THEN [st EXCEPT !.threw = TRUE]
            ELSE LET scene == SceneMapGet(scenes, sceneConfig.id)
                 IN IF scene = None
                    THEN PollLoop(st, Tail(sceneConfigs), scenes, lis)
                    ELSE PollLoop(
                           [st EXCEPT
                              !.val = Emit(@, lis, sceneConfig.id, IsActive(scene[1])),
                              !.emitted = Append(@, [sceneId |-> sceneConfig.id,
                                                     isActive |-> IsActive(scene[1])])],
                           Tail(sceneConfigs), scenes, lis)

RECURSIVE Reverse(_)
Reverse(q) == IF q = <<>> THEN <<>> ELSE Append(Reverse(Tail(q)), Head(q))

\* the configured scenes visited last to first
ScenesToCheckReversed(cfg) == Reverse(cfg.scenes)

\* for (const sceneConfig of this.config.scenes) (api.ts 569)
ScenesToCheck(cfg) == cfg.scenes

\* the busy flag left as it is when the tick ends
PollFinallyKeeps(polling) == polling

\* the finally block of pollSceneStatus (api.ts 583-585)
PollFinally(polling) == FALSE

\* the getScenes() of a poll tick settles: it rejects, or resolves with
\* scenes; catch and finally included
PollSettles ==
    /\ pollFetches > 0
    /\ pollFetches' = pollFetches - 1
    /\ isPolling' = PollFinally(isPolling)
    /\ \/ /\ ev' = Ev("poll", "", FALSE, "rejected")
          /\ UNCHANGED onValue
       \/ \E scenes \in BridgeLists :
            LET st == PollLoop([val |-> onValue, emitted |-> <<>>, threw |-> FALSE],
                               ScenesToCheck(config), scenes, listeners)
            IN /\ onValue' = st.val
               /\ ev' = [Ev("poll", "", FALSE, IF st.threw THEN "threw" ELSE "completed")
                            EXCEPT !.emitted = st.emitted, !.result = scenes]
    /\ UNCHANGED <<config, cached, accessories, accessoryInstances, apiClient,
                   pollingInterval, listeners, pc, shutdownDone, bridge>>
    /\ UNCHANGED <<instanceVars, now>>

\* the shutdown handler: cleanup() = stopPolling() + removeAllListeners()
Shutdown ==
    /\ ~shutdownDone
    /\ shutdownDone' = TRUE
    /\ pollingInterval' = StopPolling(PollingState).pollingInterval
    /\ bridge' = [bridge EXCEPT !.liveIntervals = StopPolling(PollingState).liveIntervals]
    /\ listeners' = <<>>
    /\ ev' = Ev("shutdown", "", FALSE, "")
    /\ UNCHANGED <<config, cached, accessories, accessoryInstances, apiClient,
                   isPolling, pc, pollFetches>>
    /\ UNCHANGED <<instanceVars, onValue, now>>

(* ========================= HueSceneAccessory ========================== *)

\* the accessories whose On characteristic has getOn/setOn bound: those
\* with a constructed HueSceneAccessory
Bound == {accessoryInstances[u].id : u \in DOMAIN accessoryInstances}

SceneConfigOf(id) == accessoryInstances[Generate(id)]

\* the window closed one millisecond later
RecentlyActivatedInclusive(last, t) == last # None /\ t - last[1] <= ACTIVE_WINDOW

\* the window counted in seconds instead of milliseconds
RecentlyActivatedSeconds(last, t) == last # None /\ t - last[1] < ACTIVE_WINDOW \div 1000

\* the fast path of getOn (sceneAccessory.ts 68-74)
RecentlyActivated(last, t) == last # None /\ t - last[1] < ACTIVE_WINDOW

\* was a call at time t made less than 30000 ms after the last successful
\* activation of the accessory?
WithinWindow(h, t) == h.activatedAt # None /\ t - h.activatedAt[1] < ACTIVE_WINDOW

\* getOn up to its await: true at once within the window, else getScene(id)
GetOn(id) ==
    /\ id \in Bound
    /\ IF RecentlyActivated(lastActivated[id], now)
       THEN /\ ev' = EvGetOn(id, TRUE, "window", WithinWindow(hist[id], now), hist[id].off)
            /\ UNCHANGED gets
       ELSE /\ Len(gets) < MaxGets
            /\ gets' = Append(gets, [sceneId |-> SceneConfigOf(id).id,
                                     from |-> id,
                                     recent |-> WithinWindow(hist[id], now),
                                     off |-> hist[id].off])
            /\ ev' = Ev("getOn", id, FALSE, "getScene")
    /\ UNCHANGED <<isActivating, lastActivated, recalls, timers, hist>>
    /\ UNCHANGED <<platformVars, onValue, now>>

\* the failure passed on through the outer catch block
OnGetSceneRejectedThrows ==
    [val |-> FALSE, raised |-> TRUE, level |-> "error", message |-> "Error getting state"]

\* the failure swallowed without a log call
OnGetSceneRejectedSilent ==
    [val |-> FALSE, raised |-> FALSE, level |-> "", message |-> ""]

\* the inner catch block of getOn (sceneAccessory.ts 86-91)
OnGetSceneRejected ==
    [val |-> FALSE, raised |-> FALSE, level |-> "warn",
     message |-> "Failed to get scene status"]

\* a getScene(id) of getOn settles: it rejects (getOn returns false), or
\* resolves with the scene, whose status decides the value
GetSceneSettles(i) ==
    /\ i \in 1..Len(gets)
    /\ gets' = SubSeq(gets, 1, i - 1) \o SubSeq(gets, i + 1, Len(gets))
    /\ \/ ev' = [EvGetOn(gets[i].from, OnGetSceneRejected.val, "rejected",
                          gets[i].recent, gets[i].off)
                     EXCEPT !.raised = OnGetSceneRejected.raised,
                            !.level = OnGetSceneRejected.level,
                            !.message = OnGetSceneRejected.message]
       \/ \E st \in Statuses :
            LET scene == BridgeScene(gets[i].sceneId, st)
            IN ev' = [EvGetOn(gets[i].from, IsActive(scene), "resolved",
                              gets[i].recent, gets[i].off)
                         EXCEPT !.result = <<scene>>]
    /\ UNCHANGED <<isActivating, lastActivated, recalls, timers, hist>>
    /\ UNCHANGED <<platformVars, onValue, now>>

\* the duration converted to seconds instead of milliseconds
TransitionSeconds(sceneConfig) == sceneConfig.transitionDuration * 60

\* const transitionMs = this.sceneConfig.transitionDuration * 60 * 1000
TransitionMs(sceneConfig) == sceneConfig.transitionDuration * 60 * 1000

\* every write treated as a write of true
IsOnAlways(value) == TRUE

\* const isOn = value as boolean
IsOn(value) == value

\* no duplicate-activation guard
IgnoredNever(activating) == FALSE

\* the duplicate-activation guard of setOn (sceneAccessory.ts 108-111)
Ignored(activating) == activating

\* isActivating left as it is when setOn ends
FinallyKeeps(activating) == activating

\* the finally block of setOn (sceneAccessory.ts 150-152)
Finally(activating) == FALSE

\* one flag shared by all the instances
ActivatingAny(flags, id) == \E other \in DOMAIN flags : flags[other]

\* this.isActivating: the field of the instance for scene id
\* (sceneAccessory.ts 20)
Activating(flags, id) == flags[id]

\* the activation time kept when the switch is turned off
ResetTrackingNever(last) == last

\* this.lastActivated = null in the else branch of setOn
\* (sceneAccessory.ts 128)
ResetTracking(last) == None

\* setOn up to its await (value true) or to its end (value false, or the
\* call is ignored)
SetOn(id, value) ==
    /\ id \in Bound
    /\ IF Ignored(Activating(isActivating, id))
       THEN /\ ev' = Ev("setOn", id, value, "ignored")
            /\ UNCHANGED <<isActivating, lastActivated, recalls, hist>>
       ELSE IF IsOn(value)
            THEN /\ Len(recalls[id]) < MaxInFlight
                 /\ isActivating' = [isActivating EXCEPT ![id] = TRUE]
                 /\ recalls' = [recalls EXCEPT ![id] =
                        Append(@, [sceneId |-> SceneConfigOf(id).id,
                                   transitionMs |-> TransitionMs(SceneConfigOf(id)),
                                   isOn |-> IsOn(value),
                                   before |-> onValue[id]])]
                 /\ ev' = Ev("setOn", id, value, "recallScene")
                 /\ UNCHANGED <<lastActivated, hist>>
            ELSE /\ lastActivated' = [lastActivated EXCEPT ![id] = ResetTracking(@)]
                 /\ isActivating' = [isActivating EXCEPT ![id] = Finally(@)]
                 /\ hist' = [hist EXCEPT ![id].off = (@ \/ hist[id].activatedAt # None)]
                 /\ ev' = Ev("setOn", id, value, "returned")
                 /\ UNCHANGED recalls
    /\ UNCHANGED <<gets, timers>>
    /\ UNCHANGED <<platformVars, onValue, now>>

\* no reversion scheduled
ScheduleNothing(pending, id, isOn) == pending

\* setTimeout(() => updateCharacteristic(On, !isOn), 100) in the catch
\* block of setOn (sceneAccessory.ts 145-147)
ScheduleReversion(pending, id, isOn) ==
    Append(pending, [id |-> id, value |-> ~isOn])

\* throw new HapStatusError(SERVICE_COMMUNICATION_FAILURE) in the catch
\* block of setOn (sceneAccessory.ts 149)
Throws(rejected) == rejected

\* the time recorded whatever the outcome of the call
RecordActivationAlways(last, ok, t) == Some(t)

\* this.lastActivated = Date.now() after the awaited recallScene
\* (sceneAccessory.ts 120-123): skipped when the call rejected
RecordActivation(last, ok, t) == IF ok THEN Some(t) ELSE last

\* the oldest pending recallScene of the accessory settles: on success the
\* activation time is recorded; on rejection the reversion is scheduled and
\* HapStatusError is thrown; finally isActivating is cleared
RecallSettles(id, ok) ==
    /\ Len(recalls[id]) > 0
    /\ recalls' = [recalls EXCEPT ![id] = Tail(@)]
    /\ isActivating' = [isActivating EXCEPT ![id] = Finally(@)]
    /\ IF ok
       THEN /\ lastActivated' = [lastActivated EXCEPT ![id] = RecordActivation(@, ok, now)]
            /\ hist' = [hist EXCEPT ![id] = [activatedAt |-> Some(now), off |-> FALSE]]
            /\ ev' = Ev("setOn", id, Head(recalls[id]).isOn, "resolved")
            /\ UNCHANGED timers
       ELSE /\ Len(timers) < MaxTimers
            /\ timers' = ScheduleReversion(timers, id, Head(recalls[id]).isOn)
            /\ ev' = [Ev("setOn", id, Head(recalls[id]).isOn, "rejected")
                         EXCEPT !.raised = Throws(~ok),
                                !.before = Head(recalls[id]).before]
            /\ lastActivated' = [lastActivated EXCEPT ![id] = RecordActivation(@, ok, now)]
            /\ UNCHANGED hist
    /\ UNCHANGED gets
    /\ UNCHANGED <<platformVars, onValue, now>>

\* the setTimeout callback of a failed setOn: updateCharacteristic(On, !isOn)
RevertTimer ==
    /\ Len(timers) > 0
    /\ timers' = Tail(timers)
    /\ onValue' = [onValue EXCEPT ![Head(timers).id] = Head(timers).value]
    /\ ev' = Ev("revert", Head(timers).id, Head(timers).value, "")
    /\ UNCHANGED <<isActivating, lastActivated, recalls, gets, hist>>
    /\ UNCHANGED <<platformVars, now>>

\* time passes
AdvanceTime ==
    /\ now < MaxTicks * Tick
    /\ now' = now + Tick
    /\ UNCHANGED <<platformVars, instanceVars, onValue, ev>>

\* the steps of the platform
PlatformStep ==
    \/ \E id \in SceneIds : ConfigureAccessory(id)
    \/ DidFinishLaunching
    \/ DiscoverSettles
    \/ \E isConnected \in BOOLEAN : TestConnectionSettles(isConnected)
    \/ BootstrapScenesSettle
    \/ PollTimer
    \/ PollSettles
    \/ Shutdown

\* the steps of the accessories that change state
WriteStep ==
    \/ \E id \in SceneIds, value \in BOOLEAN : SetOn(id, value)
    \/ \E id \in SceneIds, ok \in BOOLEAN : RecallSettles(id, ok)
    \/ RevertTimer

ReadStep ==
    \/ \E id \in SceneIds : GetOn(id)
    \/ \E i \in 1..MaxGets : GetSceneSettles(i)

Next ==
    \/ PlatformStep
    \/ WriteStep
    \/ ReadStep

\* the steps of an installation whose bridge address is configured, and the
\* clock
NextTimed ==
    \/ \E id \in SceneIds : ConfigureAccessory(id)
    \/ DidFinishLaunching
    \/ \E isConnected \in BOOLEAN : TestConnectionSettles(isConnected)
    \/ BootstrapScenesSettle
    \/ PollTimer
    \/ PollSettles
    \/ Shutdown
    \/ WriteStep
    \/ ReadStep
    \/ AdvanceTime

NextTwo ==
    \/ PlatformStep
    \/ WriteStep

\* the steps from launch to the accessories' writes
NextDur ==
    \/ DidFinishLaunching
    \/ \E isConnected \in BOOLEAN : TestConnectionSettles(isConnected)
    \/ BootstrapScenesSettle
    \/ WriteStep

\* at most one valid configured scene: every step, within one clock step
Spec == Init /\ [][Next]_vars

\* one installation: every step, with the clock
SpecTimed == InitTimed /\ [][NextTimed]_vars

\* two valid configured scenes: within one clock step and without getOn,
\* which changes nothing of the platform's or the accessories' state
SpecTwo == InitTwo /\ [][NextTwo]_vars

\* one configured scene of every valid transition duration: bootstrap and
\* writes
SpecDur == InitDur /\ [][NextDur]_vars

\* the steps from launch through the poll ticks
NextInterval ==
    \/ DidFinishLaunching
    \/ \E isConnected \in BOOLEAN : TestConnectionSettles(isConnected)
    \/ BootstrapScenesSettle
    \/ PollTimer
    \/ PollSettles

\* one installation for every configured polling interval: bootstrap and
\* polling
SpecInterval == InitInterval /\ [][NextInterval]_vars

(* ============================== claims =============================== *)

\* C1: an accessory never has two recallScene calls in flight: a
\* write(true) that arrives while an earlier one awaits the bridge issues
\* no call
C1_OneRecallInFlight ==
    \A id \in SceneIds : Len(recalls[id]) <= 1

\* a write(true) was ignored while the accessory's recall is in flight
C1_Witness ==
    /\ ev.op = "setOn" /\ ev.val /\ ev.out = "ignored"
    /\ Len(recalls[ev.id]) = 1

\* C2: at most one getScenes of a poll tick is in flight; a tick that fires
\* while one is in flight fetches nothing and broadcasts nothing, and when
\* the fetch in flight settles no fetch is issued in its place
C2_NoOverlappingPoll ==
    [][ /\ pollFetches' <= 1
        /\ (pollFetches > 0 /\ now' = now
              /\ ev'.op = "poll" /\ ev'.out \in {"getScenes", "skipped"})
              => (pollFetches' = pollFetches /\ onValue' = onValue /\ ev'.out = "skipped")
        /\ pollFetches' < pollFetches => pollFetches' = 0 ]_vars

\* a tick was skipped while the previous tick's fetch is unresolved
C2_Witness ==
    ev.op = "poll" /\ ev.out = "skipped" /\ pollFetches = 1 /\ isPolling

\* a getOn call has returned (not merely reached its await)
GetOnReturned == ev.op = "getOn" /\ ev.out \in {"window", "resolved", "rejected"}

\* C3 as stated: every getOn called less than 30000 ms after a successful
\* activation returns true, whatever happened in between
C3_TrueWithinWindow ==
    (GetOnReturned /\ ev.recent) => ev.val = TRUE

\* C3 amended: every getOn called less than 30000 ms after a successful
\* activation returns true, whatever the bridge reports, unless the
\* accessory has processed a write(false) since that activation
C3_TrueWithinWindowUnlessOff ==
    (GetOnReturned /\ ev.recent /\ ~ev.off) => ev.val = TRUE

\* getOn returned true one clock step after the activation, from the window
C3_Witness ==
    /\ GetOnReturned /\ ev.recent /\ ~ev.off /\ ev.val
    /\ hist[ev.id].activatedAt # None
    /\ now > hist[ev.id].activatedAt[1]

\* C4: every recallScene call in flight carries the accessory's scene id
\* and transitionDuration * 60000 ms, for every duration in 1..60
C4_RecallArguments ==
    \A id \in Bound : \A i \in 1..Len(recalls[id]) :
        /\ SceneConfigOf(id).transitionDuration \in MIN_DURATION..MAX_DURATION
        /\ recalls[id][i].sceneId = id
        /\ recalls[id][i].transitionMs = SceneConfigOf(id).transitionDuration * 60000

\* a recall with the longest transition, 60 minutes, is in flight
C4_Witness ==
    \E id \in Bound :
        /\ Len(recalls[id]) = 1
        /\ SceneConfigOf(id).transitionDuration = MAX_DURATION
        /\ recalls[id][1].transitionMs = 3600000

\* C5: a write(false) step issues no bridge call: no recallScene, no
\* getScene, no getScenes
C5_OffIssuesNoCall ==
    [][ (ev'.op = "setOn" /\ ~ev'.val)
          => (recalls' = recalls /\ gets' = gets /\ pollFetches' = pollFetches
              /\ bridge' = bridge) ]_vars

\* a write(false) was processed after a successful activation
C5_Witness ==
    /\ ev.op = "setOn" /\ ~ev.val /\ ev.out = "returned"
    /\ hist[ev.id].off

\* C6: when the recallScene of a write rejects, the write throws
\* HapStatusError and one reversion of that accessory's switch is scheduled
C6_RejectRaisesAndSchedules ==
    [][ (ev'.op = "setOn" /\ ev'.out = "rejected" /\ recalls' # recalls)
          => /\ ev'.raised
             /\ Len(timers') = Len(timers) + 1
             /\ timers'[Len(timers')].id = ev'.id ]_vars

\* a write has thrown and its reversion is pending
C6_Witness ==
    /\ ev.op = "setOn" /\ ev.out = "rejected" /\ ev.raised
    /\ timers # <<>> /\ timers[Len(timers)].id = ev.id

\* C7: isActivating is true only while a recallScene of that accessory is
\* in flight, so it is false once the write has ended, however it ended
C7_ActivatingOnlyInFlight ==
    \A id \in SceneIds : isActivating[id] => Len(recalls[id]) > 0

\* after a rejected write (its reversion still pending) a new write(true)
\* has issued a recall
C7_Witness ==
    /\ ev.op = "setOn" /\ ev.val /\ ev.out = "recallScene"
    /\ timers # <<>> /\ timers[1].id = ev.id
    /\ isActivating[ev.id]

\* C8 as stated: the value the scheduled reversion installs is the value
\* the switch displayed before the write
C8_RevertsToPreToggle ==
    (ev.op = "setOn" /\ ev.out = "rejected")
        => (timers # <<>> /\ timers[Len(timers)].value = ev.before)

\* C9: when the getScenes of a poll tick rejects, the tick broadcasts
\* nothing, throws nothing, changes no displayed value, and leaves the
\* platform ready to fetch at the next tick
C9_PollRejectHarmless ==
    [][ (ev'.op = "poll" /\ ev'.out = "rejected" /\ pollFetches' # pollFetches)
          => /\ ev'.emitted = <<>>
             /\ ~ev'.raised
             /\ onValue' = onValue
             /\ PollProceeds(isPolling', apiClient') ]_vars

\* a poll's fetch was rejected while an accessory displays on
C9_Witness ==
    /\ ev.op = "poll" /\ ev.out = "rejected"
    /\ \E id \in Bound : onValue[id]
    /\ pollingInterval # None

ResultIds(result) == {result[i].id : i \in 1..Len(result)}

\* C10: after bootstrap, a valid configured scene absent from the bridge's
\* list has no accessory instance and was not registered with the registry;
\* every valid configured scene on the list has its accessory and its
\* instance; and the poll timer runs
C10_AbsentSceneSkipped ==
    (ev.op = "bootstrap" /\ ev.out = "ready")
        => /\ \A s \in Range(ValidScenes(config.scenes)) :
                IF s.id \in ResultIds(ev.result)
                THEN /\ Generate(s.id) \in DOMAIN accessories
                     /\ Generate(s.id) \in DOMAIN accessoryInstances
                ELSE /\ Generate(s.id) \notin DOMAIN accessoryInstances
                     /\ Generate(s.id) \notin Range(bridge.registered)
           /\ pollingInterval # None

\* bootstrap ended with one configured scene absent from the bridge and
\* another registered
C10_Witness ==
    /\ ev.op = "bootstrap" /\ ev.out = "ready"
    /\ \E s, t \in Range(ValidScenes(config.scenes)) :
          /\ s.id \notin ResultIds(ev.result)
          /\ t.id \in ResultIds(ev.result)
          /\ Generate(t.id) \in Range(bridge.registered)

\* the scene ids of the configured set (api.ts 380)
ConfiguredSceneIds == {s.id : s \in Range(ValidScenes(config.scenes))}

\* the step in which the initial getScenes() of bootstrap resolved
BootstrapFetched ==
    pc = "scenes" /\ ev'.op = "bootstrap" /\ ev'.out \in {"noScenes", "ready"}

\* C11: when the connectivity test passed and the scene list was fetched,
\* every accessory restored from the cache whose scene id is not configured
\* is unregistered and removed from the accessory map, for every configured
\* set, the empty one included, and no accessory of a configured scene is
\* unregistered
C11_StaleUnregistered ==
    [][ BootstrapFetched =>
          /\ \A u \in DOMAIN accessories :
                accessories[u] \notin ConfiguredSceneIds
                    => u \in bridge'.unregistered /\ u \notin DOMAIN accessories'
          /\ \A id \in ConfiguredSceneIds : Generate(id) \notin bridge'.unregistered ]_vars

\* the ways discoverAndRegisterScenes ends without a scene list
BootstrapFailures ==
    {"discoverFailed", "noBridge", "noApiKey", "notConnected", "rejected"}

C13_QuietAfterShutdown ==
    [][ shutdownDone' =>
          /\ pollingInterval' = None
          /\ listeners' = <<>>
          /\ (ev'.op = "poll" => onValue' = onValue) ]_vars

\* the interval the configuration asks for (api.ts 514)
RequestedInterval ==
    IF config.pollingInterval = None THEN DEFAULT_INTERVAL
    ELSE config.pollingInterval[1]

\* C14: the interval of the running poll timer is the configured one
\* clamped to [60000, 300000] (60000 when none is configured): it lies in
\* the range, equals the configured value when that is in the range, and
\* the correction warning has been logged exactly when the two differ;
\* without a timer started no correction warning is logged
C14_IntervalClamped ==
    /\ pollingInterval # None =>
          LET effective == pollingInterval[1]
              requested == RequestedInterval
          IN /\ effective >= MIN_INTERVAL /\ effective <= MAX_INTERVAL
             /\ requested < MIN_INTERVAL => effective = MIN_INTERVAL
             /\ requested > MAX_INTERVAL => effective = MAX_INTERVAL
             /\ (requested >= MIN_INTERVAL /\ requested <= MAX_INTERVAL)
                    => effective = requested
             /\ config.pollingInterval = None => effective = 60000
             /\ config.pollingInterval = Some(30000) => effective = 60000
             /\ config.pollingInterval = Some(500000) => effective = 300000
             /\ bridge.warned <=> effective # requested
    /\ (pollingInterval = None /\ ~shutdownDone) => ~bridge.warned

\* the timer runs at 60000 for a configured 30000, and the warning is logged
C14_Witness ==
    /\ config.pollingInterval = Some(30000)
    /\ pollingInterval = Some(60000)
    /\ bridge.warned

\* C15: a timer start comes with exactly one immediate poll; the interval
\* of a running timer never changes and each firing issues at most one
\* getScenes; a startPolling call in a state where the timer runs changes
\* nothing (no second timer, no poll); at most one timer is ever live
C15_StartPollingIdempotent ==
    [][ /\ bridge'.liveIntervals <= 1
        /\ (pollingInterval = None /\ pollingInterval' # None)
              => /\ pollFetches' = pollFetches + 1
                 /\ bridge'.liveIntervals = bridge.liveIntervals + 1
        /\ (pollingInterval # None /\ pollingInterval' # None)
              => /\ pollingInterval' = pollingInterval
                 /\ pollFetches' <= pollFetches + 1
                 /\ bridge'.liveIntervals = bridge.liveIntervals
        /\ pollingInterval' # None
              => StartPolling(PollingState', config', apiClient') = PollingState' ]_vars

\* the timer runs, its initial poll has settled and a later tick is in flight
C15_Witness ==
    /\ pollingInterval # None
    /\ bridge.liveIntervals = 1
    /\ ev.op = "poll" /\ ev.out = "getScenes"
    /\ pollFetches = 1

\* C16: a getOn called when lastActivated is null or 30000 ms or more
\* after it calls getScene for the accessory's own scene id; when that call
\* resolves, getOn returns true exactly when the reported status is static
\* or dynamic_palette, and false when it is inactive or missing
C16_ReadsBridgeOutsideWindow ==
    [][ /\ (/\ ev'.op = "getOn" /\ ev'.out \in {"window", "getScene"}
            /\ now' = now
            /\ \/ lastActivated[ev'.id] = None
               \/ now - lastActivated[ev'.id][1] >= 30000)
           => /\ ev'.out = "getScene"
              /\ Len(gets') = Len(gets) + 1
              /\ gets'[Len(gets')].sceneId = ev'.id
              /\ gets'[Len(gets')].from = ev'.id
        /\ (ev'.op = "getOn" /\ ev'.out = "resolved" /\ gets' # gets)
           => /\ ev'.result[1].id = ev'.id
              /\ ev'.val = (ev'.result[1].status \in {"static", "dynamic_palette"})
              /\ ev'.result[1].status \in {"inactive", "none"} => ev'.val = FALSE ]_vars

\* a getOn called 30000 ms or more after the remembered activation returned
\* true for a bridge status of dynamic_palette
C16_Witness ==
    /\ GetOnReturned /\ ev.out = "resolved" /\ ev.val
    /\ ev.result[1].status = "dynamic_palette"
    /\ lastActivated[ev.id] # None
    /\ ~ev.recent

BroadcastsFor(id) == {i \in 1..Len(ev'.emitted) : ev'.emitted[i].sceneId = id}

\* C19: a broadcast (sceneId, isActive) sets the displayed value of the
\* accessory configured for sceneId to isActive and leaves the displayed
\* value of every other accessory as it was
C19_BroadcastReachesOwnAccessory ==
    [][ (ev'.op = "poll" /\ pollFetches' < pollFetches) =>
          \A id \in SceneIds :
             IF BroadcastsFor(id) # {} /\ id \in Range(listeners)
             THEN \E i \in BroadcastsFor(id) :
                     /\ \A j \in BroadcastsFor(id) : j <= i
                     /\ onValue'[id] = ev'.emitted[i].isActive
             ELSE onValue'[id] = onValue[id] ]_vars

\* the only broadcast of a tick set s1 to off while s2, which has a
\* listener too, kept displaying on
C19_Witness ==
    /\ ev.op = "poll" /\ ev.out = "completed"
    /\ ev.emitted = <<[sceneId |-> "s1", isActive |-> FALSE]>>
    /\ Range(listeners) = {"s1", "s2"}
    /\ ~onValue["s1"] /\ onValue["s2"]

\* the ids of the scene entries of config.scenes
ConfigIds == {s.id : s \in {t \in Range(config.scenes) : ~t.isNull /\ t.id # ""}}

\* a poll tick whose getScenes() resolved has ended
PollFetched == ev.op = "poll" /\ ev.out \in {"completed", "threw"}

\* C20: in a poll tick whose getScenes succeeded, each configured scene
\* whose id is in the result got a broadcast (id, isActive) with isActive
\* true exactly when its status is static or dynamic_palette, and nothing
\* else was broadcast: no scene absent from the result, none that is not
\* configured
C20_BroadcastsPerConfiguredScene ==
    PollFetched =>
        /\ \A id \in ConfigIds \cap ResultIds(ev.result) :
              \E i \in 1..Len(ev.emitted) : ev.emitted[i].sceneId = id
        /\ \A i \in 1..Len(ev.emitted) :
              /\ ev.emitted[i].sceneId \in ConfigIds \cap ResultIds(ev.result)
              /\ \E k \in 1..Len(ev.result) :
                    /\ ev.result[k].id = ev.emitted[i].sceneId
                    /\ ev.emitted[i].isActive =
                          (ev.result[k].status \in {"static", "dynamic_palette"})

\* C21: while the recallScene of one accessory is in flight, a write(true)
\* on another accessory that is not activating issues its own recallScene
\* at once, so both are in flight together; and no setOn step, settling
\* recall or reversion of one accessory changes isActivating, lastActivated
\* or the pending recalls of another
C21_ScenesIndependent ==
    [][ \A a, b \in SceneIds :
          (a # b /\ ev'.id = b /\ ev'.op \in {"setOn", "revert"})
            => /\ isActivating'[a] = isActivating[a]
               /\ lastActivated'[a] = lastActivated[a]
               /\ recalls'[a] = recalls[a]
               /\ (/\ ev'.op = "setOn" /\ ev'.val
                   /\ ev'.out \in {"ignored", "recallScene"}
                   /\ isActivating[a] /\ ~isActivating[b])
                     => /\ ev'.out = "recallScene"
                        /\ Len(recalls'[b]) = Len(recalls[b]) + 1
                        /\ Len(recalls'[a]) > 0 ]_vars

\* the recalls of both scenes are in flight, the second one just issued
C21_Witness ==
    /\ ev.op = "setOn" /\ ev.out = "recallScene"
    /\ \A id \in {"s1", "s2"} : Len(recalls[id]) = 1 /\ isActivating[id]

(* ============================ HueApiClient ============================ *)

\* the record of one client call: what the HTTP layer delivered, the value
\* the call returned (None when it threw), the message of the error it
\* threw, the number of times the request was sent, and whether the
\* request is still with the HTTP layer
ClientEv(op, delivered, result, sent) ==
    [op |-> op, delivered |-> delivered, returned |-> result.returned,
     threw |-> result.returned = None, message |-> result.message,
     sent |-> sent, pending |-> FALSE]

\* getScenes, getLights and getScene send GET, recallScene sends PUT
InstanceMethods == {"getScenes", "getLights", "getScene", "recallScene"}
ClientOps == InstanceMethods \cup {"createApiKey"}

\* the call followed is still with the HTTP layer
ClientBusy == ev.op \in ClientOps /\ ev.pending

Usernames == {"key-1", "key-2"}
Descriptions == {"link button not pressed", "unauthorized user"}

\* an element of the HueAuthResponse[] body: success and error are optional
AuthResponse(success, error) == [success |-> success, error |-> error]

\* the bodies axios.post may deliver to createApiKey: an empty array, or one
\* element with success absent, empty or holding usernames, and error
\* absent or holding a description
AuthBodies ==
    {<<>>} \cup
    {<<AuthResponse(success, error)>> :
        success \in {None, Some(<<>>)}
                    \cup {Some(<<u>>) : u \in Usernames}
                    \cup {Some(<<u, v>>) : u \in Usernames, v \in Usernames},
        error \in {None} \cup {Some(d) : d \in Descriptions}}

\* the error description returned in place of thrown
CreateApiKeyLenient(body) ==
    IF body = <<>> THEN [returned |-> None, message |-> "TypeError"]
    ELSE LET result == body[1]
         IN IF result.success # None /\ Len(result.success[1]) > 0
            THEN [returned |-> Some(result.success[1][1]), message |-> ""]
            ELSE IF result.error # None
                 THEN [returned |-> Some(result.error[1]), message |-> ""]
                 ELSE [returned |-> None,
                       message |-> "Unexpected response format from Hue bridge"]

\* createApiKey on the body of a resolved axios.post (api.ts 77-87);
\* reading a field of data[0] of an empty array throws a TypeError
CreateApiKey(body) ==
    IF body = <<>> THEN [returned |-> None, message |-> "TypeError"]
    ELSE LET result == body[1]
         IN IF result.success # None /\ Len(result.success[1]) > 0
            THEN [returned |-> Some(result.success[1][1]), message |-> ""]
            ELSE IF result.error # None
                 THEN [returned |-> None, message |-> result.error[1]]
                 ELSE [returned |-> None,
                       message |-> "Unexpected response format from Hue bridge"]

\* a createApiKey call whose axios.post resolved with body
CreateApiKeyCall ==
    /\ ~ClientBusy
    /\ \E body \in AuthBodies :
          ev' = ClientEv("createApiKey", body, CreateApiKey(body), 1)
    /\ UNCHANGED <<platformVars, instanceVars, onValue, now>>

\* the bridge's two response shapes: a success list with no error, and an
\* error with no success entry
SuccessShaped(body) ==
    /\ Len(body) = 1 /\ body[1].error = None
    /\ body[1].success # None /\ Len(body[1].success[1]) > 0
ErrorShaped(body) ==
    /\ Len(body) = 1 /\ body[1].error # None
    /\ body[1].success = None \/ body[1].success = Some(<<>>)

\* C22: createApiKey returns exactly the first username of a success-shaped
\* response; for an error-shaped response it throws an error whose message
\* is the response's description and returns no key
C22_CreateApiKeyRoundTrip ==
    ev.op = "createApiKey" =>
        /\ SuccessShaped(ev.delivered)
              => /\ ev.returned = Some(ev.delivered[1].success[1][1])
                 /\ ~ev.threw
        /\ ErrorShaped(ev.delivered)
              => /\ ev.returned = None /\ ev.threw
                 /\ ev.message = ev.delivered[1].error[1]

\* createApiKey threw 'link button not pressed' for the error-shaped response
C22_Witness ==
    /\ ev.op = "createApiKey"
    /\ ErrorShaped(ev.delivered)
    /\ ev.threw /\ ev.message = "link button not pressed"

(* ---------------- instance calls: retry, errors, envelope --------------- *)

\* axiosRetry(this.client, {retries: 3, ...})
Retries == 3

\* a rejected request as handleApiError reads it: response.status, code and
\* message, each of them optional
Failure(status, code, message) ==
    [status |-> status, code |-> code, message |-> message]
Failures ==
    {Failure(status, code, message) :
        status \in {None} \cup {Some(n) : n \in {400, 401, 403, 404, 429, 500, 503}},
        code \in {None} \cup {Some(c) : c \in {"ECONNREFUSED", "ETIMEDOUT",
                                              "ECONNABORTED"}},
        message \in {None, Some("socket hang up")}}

\* a response envelope: errors[].description and data[]
Envelope(errors, data) == [errors |-> errors, data |-> data]
ErrorDescriptions == {"device unreachable", "resource busy"}
Resources == {"r1", "r2"}
MaxListed == 2
Envelopes ==
    {Envelope(errors, data) :
        errors \in SeqsUpTo({[description |-> d] : d \in ErrorDescriptions}, MaxListed),
        data \in SeqsUpTo(Resources, MaxListed)}

\* how one attempt of a request settles
Resolved(body) == [settled |-> "resolved", body |-> Some(body), failure |-> None]
Rejected(failure) == [settled |-> "rejected", body |-> None, failure |-> Some(failure)]
Outcomes == {Resolved(b) : b \in Envelopes} \cup {Rejected(f) : f \in Failures}

HasStatus(f, lo, hi) == f.status # None /\ f.status[1] >= lo /\ f.status[1] <= hi

\* axiosRetry.isNetworkOrIdempotentRequestError for a GET or PUT request: a
\* failure without response that carries a code, or a failure without
\* response or with a 5xx status; never a request aborted by its timeout.
\* Whether a 429 counts as well differs between releases of the library.
IsNetworkOrIdempotentRequestError(f, retries429) ==
    /\ f.code # Some("ECONNABORTED")
    /\ \/ f.status = None
       \/ HasStatus(f, 500, 599)
       \/ retries429 /\ f.status = Some(429)

\* every failure retried
RetryConditionAny(f, retries429) == TRUE

\* retryCondition of the constructor
RetryCondition(f, retries429) ==
    \/ IsNetworkOrIdempotentRequestError(f, retries429)
    \/ f.status # None /\ f.status[1] >= 500

\* the library re-sends while retryCount < retries and the condition holds;
\* retryCount is the number of re-sends made so far
ShouldRetry(retryCount, f, retries429) ==
    retryCount < Retries /\ RetryCondition(f, retries429)

\* errors.map(e => e.description).join(', ')
RECURSIVE Join(_)
Join(errors) ==
    IF Len(errors) = 0 THEN ""
    ELSE IF Len(errors) = 1 THEN errors[1].description
    ELSE errors[1].description \o ", " \o Join(Tail(errors))

\* the code of the failure looked at before its status
HandleApiErrorCodeFirst(f) ==
    IF f.code = Some("ECONNREFUSED")
    THEN "Cannot connect to Hue bridge - check bridge IP address"
    ELSE IF f.code = Some("ETIMEDOUT")
    THEN "Connection to Hue bridge timed out"
    ELSE IF f.status = Some(401) \/ f.status = Some(403)
    THEN "Authentication failed - please check your API key"
    ELSE IF f.status = Some(404) THEN "Resource not found on Hue bridge"
    ELSE IF f.status = Some(429)
    THEN "Rate limit exceeded - too many requests to Hue bridge"
    ELSE IF f.status # None /\ f.status[1] >= 500 THEN "Hue bridge server error"
    ELSE "Hue API error: "
            \o (IF f.message = None THEN "Unknown error" ELSE f.message[1])

\* handleApiError: the message of the Error it throws
HandleApiError(f) ==
    IF f.status = Some(401) \/ f.status = Some(403)
    THEN "Authentication failed - please check your API key"
    ELSE IF f.status = Some(404) THEN "Resource not found on Hue bridge"
    ELSE IF f.status = Some(429)
    THEN "Rate limit exceeded - too many requests to Hue bridge"
    ELSE IF f.status # None /\ f.status[1] >= 500 THEN "Hue bridge server error"
    ELSE IF f.code = Some("ECONNREFUSED")
    THEN "Cannot connect to Hue bridge - check bridge IP address"
    ELSE IF f.code = Some("ETIMEDOUT")
    THEN "Connection to Hue bridge timed out"
    ELSE "Hue API error: "
            \o (IF f.message = None THEN "Unknown error" ELSE f.message[1])

\* the scene id getScene and recallScene are called with
RequestedScene == "s1"

\* the envelope's errors ignored
OnResolvedIgnoringErrors(method, body) ==
    IF method \in {"getScenes", "getLights"}
    THEN [returned |-> Some(body.data), message |-> ""]
    ELSE IF method = "getScene"
    THEN IF Len(body.data) = 0
         THEN [returned |-> None,
               message |-> "Scene " \o RequestedScene \o " not found"]
         ELSE [returned |-> Some(body.data[1]), message |-> ""]
    ELSE [returned |-> Some("undefined"), message |-> ""]

\* an instance method after its request resolved with body
OnResolved(method, body) ==
    IF Len(body.errors) > 0
    THEN [returned |-> None, message |-> "Hue API errors: " \o Join(body.errors)]
    ELSE IF method \in {"getScenes", "getLights"}
    THEN [returned |-> Some(body.data), message |-> ""]
    ELSE IF method = "getScene"
    THEN IF Len(body.data) = 0
         THEN [returned |-> None,
               message |-> "Scene " \o RequestedScene \o " not found"]
         ELSE [returned |-> Some(body.data[1]), message |-> ""]
    ELSE [returned |-> Some("undefined"), message |-> ""]

\* try { ... } catch (error) { if (axios.isAxiosError(error))
\* this.handleApiError(error); throw error; }
InstanceResult(method, outcome) ==
    IF outcome.settled = "rejected"
    THEN [returned |-> None, message |-> HandleApiError(outcome.failure[1])]
    ELSE OnResolved(method, outcome.body[1])

\* a request the HTTP layer has sent `sent` times and not settled yet;
\* delivered is the rejection of the attempt before, if there was one
ClientPending(op, rejection, sent) ==
    [op |-> op, delivered |-> rejection, returned |-> None, threw |-> FALSE,
     message |-> "", sent |-> sent, pending |-> TRUE]

\* an instance method sends its request
ClientRequest ==
    /\ ~ClientBusy
    /\ \E method \in InstanceMethods : ev' = ClientPending(method, None, 1)
    /\ UNCHANGED <<platformVars, instanceVars, onValue, now>>

\* an attempt is rejected and axios-retry sends the request again
ClientRetry ==
    /\ ClientBusy
    /\ \E f \in Failures, retries429 \in BOOLEAN :
          /\ ShouldRetry(ev.sent - 1, f, retries429)
          /\ ev' = ClientPending(ev.op, Some(Rejected(f)), ev.sent + 1)
    /\ UNCHANGED <<platformVars, instanceVars, onValue, now>>

\* an attempt settles for good: the method returns or throws
ClientSettles ==
    /\ ClientBusy
    /\ \E outcome \in Outcomes, retries429 \in BOOLEAN :
          /\ outcome.settled = "rejected"
                => ~ShouldRetry(ev.sent - 1, outcome.failure[1], retries429)
          /\ ev' = ClientEv(ev.op, outcome, InstanceResult(ev.op, outcome), ev.sent)
    /\ UNCHANGED <<platformVars, instanceVars, onValue, now>>

\* the steps of the client calls
NextClient ==
    \/ CreateApiKeyCall
    \/ ClientRequest
    \/ ClientRetry
    \/ ClientSettles

\* the calls of HueApiClient on what the HTTP layer delivers
SpecClient == InitTimed /\ [][NextClient]_vars

Is4xx(f) == HasStatus(f, 400, 499)
Transient(f) == f.status = None \/ HasStatus(f, 500, 599)

SurfacedFailure == ev.delivered.failure[1]
CallRejected ==
    ev.op \in InstanceMethods /\ ~ev.pending /\ ev.delivered.settled = "rejected"

CallResolved ==
    ev.op \in InstanceMethods /\ ~ev.pending /\ ev.delivered.settled = "resolved"
ReceivedEnvelope == ev.delivered.body[1]

\* C25: when the envelope's error list is non-empty, getScenes, getLights,
\* getScene and recallScene throw an error whose message is 'Hue API
\* errors: ' followed by all descriptions, in order, separated by ', ', and
\* return nothing; when it is empty, getScenes and getLights return the
\* data array as received
C25_EnvelopeErrors ==
    CallResolved =>
        LET errors == ReceivedEnvelope.errors
            e(i) == errors[i].description
        IN  /\ Len(errors) > 0 => ev.threw /\ ev.returned = None
            /\ Len(errors) = 1 => ev.message = "Hue API errors: " \o e(1)
            /\ Len(errors) = 2
                  => ev.message = "Hue API errors: " \o e(1) \o ", " \o e(2)
            /\ Len(errors) = 3
                  => ev.message = "Hue API errors: " \o e(1) \o ", " \o e(2)
                                      \o ", " \o e(3)
            /\ (Len(errors) = 0 /\ ev.op \in {"getScenes", "getLights"})
                  => /\ ~ev.threw
                     /\ ev.returned = Some(ReceivedEnvelope.data)

\* getScene received two errors next to a data item and threw both
\* descriptions
C25_Witness ==
    /\ CallResolved /\ ev.op = "getScene"
    /\ Len(ReceivedEnvelope.errors) = 2 /\ Len(ReceivedEnvelope.data) > 0
    /\ ev.threw /\ ev.returned = None
    /\ ev.message = "Hue API errors: device unreachable, resource busy"


(* ------------------------ bridge address (C26) ------------------------- *)

\* the client initializeApiClient constructs for address ip
ClientFor(ip) == [bridgeIp |-> ip, apiKey |-> config.apiKey]

\* C26: during bootstrap, with a configured bridge address discoverBridges
\* is not called and the client is built for the configured address;
\* without one discoverBridges is called once and the client is built
\* for the first candidate's address, and with no candidate (or a failed
\* discovery) no client is built. A client is built only when an API key is
\* configured, and nothing after address resolution calls discoverBridges
\* or builds another client.
C26_BridgeAddressResolution ==
    [][ /\ (pc = "constructed" /\ pc' # "constructed" /\ ev'.op = "bootstrap") =>
              IF config.bridgeIp # ""
              THEN /\ bridge'.discover = 0
                   /\ bridge'.built = IF config.apiKey # ""
                                      THEN <<ClientFor(config.bridgeIp)>> ELSE <<>>
                   /\ config.apiKey # ""
                         => apiClient' = Some(ClientFor(config.bridgeIp))
              ELSE /\ bridge'.discover = 1
                   /\ bridge'.built = <<>> /\ apiClient' = None
        /\ (pc = "discover" /\ pc' # "discover" /\ ev'.op = "bootstrap") =>
              /\ bridge'.discover = 1
              /\ IF ev'.out \in {"discoverFailed", "noBridge"}
                 THEN /\ bridge'.built = <<>> /\ apiClient' = None
                      /\ bridge'.candidates = <<>>
                 ELSE /\ Len(bridge'.candidates) > 0
                      /\ bridge'.built = IF config.apiKey # ""
                                         THEN <<ClientFor(bridge'.candidates[1])>>
                                         ELSE <<>>
                      /\ config.apiKey # ""
                            => apiClient' = Some(ClientFor(bridge'.candidates[1]))
        /\ pc \notin {"constructed", "discover"} =>
              /\ bridge'.discover = bridge.discover
              /\ bridge'.built = bridge.built ]_vars

\* discovery returned two candidates and the client was built for the first
C26_Witness ==
    /\ bridge.discover = 1
    /\ bridge.candidates = <<"10.0.0.8", "10.0.0.7">>
    /\ bridge.built = <<[bridgeIp |-> "10.0.0.8", apiKey |-> "key"]>>
    /\ apiClient = Some([bridgeIp |-> "10.0.0.8", apiKey |-> "key"])


(* ------------------------ polling liveness (C27) ----------------------- *)

\* installations followed under fair polling: two valid scenes, and a null
\* entry ahead of a valid scene
InstallationsLive ==
    { Inst(Cfg("10.0.0.2", "key", <<SC("s1", "One", 1), SC("s2", "Two", 60)>>, None), {}),
      Inst(Cfg("10.0.0.2", "key", <<NullEntry, SC("s1", "One", 1)>>, None), {}) }
InitLive == InitWith(InstallationsLive)

\* the getScenes() of a poll tick resolves
PollResolves == PollSettles /\ ev'.out # "rejected"

\* bootstrap and polling where the timer keeps firing (setInterval) and
\* getScenes calls keep resolving
SpecLive ==
    /\ InitLive /\ [][NextInterval]_vars
    /\ WF_vars(PollTimer)
    /\ SF_vars(PollResolves)

\* a poll tick just resolved and every accessory whose scene the bridge
\* reported displays the reported status
StatusPushed ==
    /\ ev.op = "poll" /\ ev.out \in {"completed", "threw"}
    /\ \A id \in Bound :
          LET scene == SceneMapGet(ev.result, id)
          IN scene # None => onValue[id] = IsActive(scene[1])

\* C27: after a successful bootstrap, if the poll timer keeps firing and
\* getScenes calls keep resolving, the status the bridge reports for every
\* configured scene that has an accessory is eventually pushed to that
\* accessory's displayed value
C27_StatusEventuallyPushed == (pollingInterval # None) ~> StatusPushed


(* ------------------- turning the switch off (C28) ---------------------- *)

\* C28 as stated: after any write(false) call returns, the accessory's
\* lastActivated is unset
C28_AnyOffClearsActivation ==
    (ev.op = "setOn" /\ ~ev.val /\ ev.out \in {"returned", "ignored"})
        => lastActivated[ev.id] = None

\* C28: after a write(false) call that is not ignored (no activation is in
\* flight when it arrives) returns, the accessory's lastActivated is unset,
\* and a read() called before the next successful activation consults the
\* bridge instead of the 30-second window
C28_ProcessedOffClearsActivation ==
    [][ \A id \in SceneIds :
          /\ (ev'.op = "setOn" /\ ev'.id = id /\ ~ev'.val /\ ev'.out = "returned")
                => lastActivated'[id] = None
          /\ (hist[id].off /\ ev'.op = "getOn" /\ ev'.id = id
                /\ ev'.out \in {"window", "getScene"})
                => /\ ev'.out = "getScene"
                   /\ Len(gets') = Len(gets) + 1
                   /\ gets'[Len(gets')].sceneId = id ]_vars

\* an accessory was activated and then turned off, and the read() that
\* followed asked the bridge
C28_Witness ==
    /\ ev.op = "getOn" /\ ev.out = "getScene"
    /\ hist[ev.id].activatedAt # None /\ hist[ev.id].off
    /\ lastActivated[ev.id] = None
    /\ Len(gets) > 0 /\ gets[Len(gets)].from = ev.id


(* --------------------- writes during an activation (C29) --------------- *)

\* C29: a write that arrives while isActivating is set returns without
\* raising, issues no bridge call, schedules nothing and leaves
\* lastActivated, isActivating and the displayed value as they are. It is
\* not replayed: when the activation in flight ends, whatever its outcome,
\* no call is issued in its place, a recallScene call is only ever issued by
\* a write(true) that is not ignored, and lastActivated is only ever
\* cleared by a write(false) that is not ignored.
C29_IgnoredWriteIsNoOp ==
    [][ \A id \in SceneIds :
          /\ (isActivating[id] /\ ev'.op = "setOn" /\ ev'.id = id
                /\ ev'.out \in {"ignored", "recallScene", "returned"})
                => /\ ev'.out = "ignored" /\ ~ev'.raised
                   /\ recalls' = recalls /\ gets' = gets
                   /\ pollFetches' = pollFetches /\ timers' = timers
                   /\ lastActivated' = lastActivated
                   /\ isActivating' = isActivating
                   /\ onValue' = onValue
          /\ (ev'.op = "setOn" /\ ev'.id = id /\ ev'.out \in {"resolved", "rejected"})
                => /\ recalls'[id] = Tail(recalls[id])
                   /\ lastActivated'[id] =
                        IF ev'.out = "resolved" THEN Some(now) ELSE lastActivated[id]
          /\ Len(recalls'[id]) > Len(recalls[id])
                => /\ ev'.op = "setOn" /\ ev'.id = id /\ ev'.val
                   /\ ev'.out = "recallScene" /\ ~isActivating[id]
          /\ (lastActivated[id] # None /\ lastActivated'[id] = None)
                => /\ ev'.op = "setOn" /\ ev'.id = id /\ ~ev'.val
                   /\ ev'.out = "returned" /\ ~isActivating[id] ]_vars

\* a write(false) was ignored while a second activation of an accessory
\* with a recorded activation time awaits the bridge
C29_Witness ==
    /\ ev.op = "setOn" /\ ev.out = "ignored" /\ ~ev.val
    /\ isActivating[ev.id] /\ Len(recalls[ev.id]) = 1
    /\ lastActivated[ev.id] # None


(* ----------------- the window and the poll broadcasts (C30) ------------ *)

\* the poll tick that just resolved pushed isActive = false to the
\* accessory of scene id
PollPushedOff(id) ==
    /\ ev'.op = "poll" /\ ev'.out \in {"completed", "threw"}
    /\ pollFetches' < pollFetches
    /\ \E k \in 1..Len(listeners) : listeners[k] = id
    /\ \E i \in 1..Len(ev'.emitted) :
          ev'.emitted[i].sceneId = id /\ ~ev'.emitted[i].isActive

\* C30: while an accessory is within 30000 ms of a successful activation
\* and has not been turned off since, no poll broadcast sets its displayed
\* value to off, so the displayed value stays what read() returns
C30_WindowOverridesPoll ==
    [][ \A id \in SceneIds :
          (WithinWindow(hist[id], now) /\ ~hist[id].off /\ id \in Bound)
            => /\ ~PollPushedOff(id)
               /\ (ev'.op = "poll" /\ onValue[id]) => onValue'[id] ]_vars


(* ---------------------- order of the broadcasts (C31) ------------------ *)

\* the first position of scene id in a list of scenes or scene entries
IndexOf(list, id) ==
    CHOOSE i \in 1..Len(list) :
        /\ list[i].id = id
        /\ \A j \in 1..(i - 1) : list[j].id # id

\* C31 as stated: within one poll tick the broadcasts are emitted in the
\* order in which their scenes appear in the getScenes result
C31_BroadcastsInBridgeOrder ==
    PollFetched =>
        \A i, j \in 1..Len(ev.emitted) :
            i < j => IndexOf(ev.result, ev.emitted[i].sceneId)
                        < IndexOf(ev.result, ev.emitted[j].sceneId)

\* C31: within one poll tick the broadcasts are emitted in the order in
\* which their scenes appear in config.scenes, whatever the order of the
\* getScenes result
C31_BroadcastsInConfigOrder ==
    PollFetched =>
        \A i, j \in 1..Len(ev.emitted) :
            i < j => IndexOf(config.scenes, ev.emitted[i].sceneId)
                        < IndexOf(config.scenes, ev.emitted[j].sceneId)

\* the bridge listed s2 before s1 and the tick broadcast s1 before s2
C31_Witness ==
    /\ PollFetched
    /\ Len(ev.result) = 2 /\ ev.result[1].id = "s2" /\ ev.result[2].id = "s1"
    /\ Len(ev.emitted) = 2
    /\ ev.emitted[1].sceneId = "s1" /\ ev.emitted[2].sceneId = "s2"


(* ------------------------- the polling flag (C32) ---------------------- *)

\* C32: isPolling is set exactly while the getScenes of a poll tick is in
\* flight; the tick that ends clears it whether the fetch resolved and the
\* loop completed, the fetch rejected, or the loop threw; a tick skipped
\* because the flag was set leaves it set
C32_BusyFlagFollowsTick ==
    [][ /\ isPolling' = (pollFetches' > 0)
        /\ (ev'.op = "poll" /\ pollFetches' < pollFetches)
              => /\ ev'.out \in {"completed", "threw", "rejected"}
                 /\ isPolling /\ ~isPolling'
        /\ (ev'.op = "poll" /\ ev'.out = "skipped" /\ isPolling)
              => isPolling' /\ pollFetches' = pollFetches
        /\ (ev'.op = "poll" /\ ev'.out = "getScenes" /\ pollFetches' > pollFetches)
              => ~isPolling /\ isPolling' ]_vars

\* a tick whose loop threw has ended and the flag is cleared
C32_Witness ==
    /\ ev.op = "poll" /\ ev.out = "threw"
    /\ ~isPolling /\ pollFetches = 0
    /\ pollingInterval # None


(* --------------------------- registration (C33) ------------------------ *)

\* installations followed through bootstrap: a scene configured twice, a
\* restored and a stale cached accessory, and a cached accessory whose
\* entry has lost its name
InstallationsBoot ==
    { Inst(Cfg("10.0.0.2", "key",
               <<SC("s1", "One", 1), SC("s1", "Uno", 2), SC("s2", "Two", 60)>>, None), {}),
      Inst(Cfg("10.0.0.2", "key", <<SC("s1", "One", 1), SC("s2", "Two", 60)>>, None),
           {"s2", "s3"}),
      Inst(Cfg("10.0.0.2", "key", <<SC("s1", "", 30), SC("s2", "Two", 15)>>, None),
           {"s1"}) }
InitBoot == InitWith(InstallationsBoot)

\* the steps from the restoring of the cache to the end of bootstrap
NextBoot ==
    \/ \E id \in SceneIds : ConfigureAccessory(id)
    \/ DidFinishLaunching
    \/ \E isConnected \in BOOLEAN : TestConnectionSettles(isConnected)
    \/ BootstrapScenesSettle

\* cache restore and bootstrap
SpecBoot == InitBoot /\ [][NextBoot]_vars

\* discoverAndRegisterScenes just ran to its end
BootstrapCompletes == pc = "scenes" /\ ev'.op = "bootstrap" /\ ev'.out = "ready"

\* C33: registerPlatformAccessories is called only for a scene whose uuid
\* is not in the accessory map: never for a restored cached accessory and
\* never twice for the same uuid; a scene found in the map keeps its entry;
\* and after bootstrap there is one accessory instance for each distinct
\* valid configured scene present on the bridge
C33_RegistersOnlyAbsent ==
    [][ BootstrapCompletes =>
          LET present == {s.id : s \in Range(ValidScenes(config.scenes))}
                            \cap ResultIds(ev'.result)
          IN  /\ \A i \in 1..Len(bridge'.registered) :
                    /\ bridge'.registered[i] \notin DOMAIN accessories
                    /\ \A j \in 1..Len(bridge'.registered) :
                          bridge'.registered[i] = bridge'.registered[j] => i = j
              /\ Range(bridge'.registered) =
                    {Generate(id) : id \in present} \ DOMAIN accessories
              /\ \A u \in DOMAIN accessories \cap DOMAIN accessories' :
                    accessories'[u] = accessories[u]
              /\ DOMAIN accessoryInstances' = {Generate(id) : id \in present}
              /\ Cardinality(DOMAIN accessoryInstances') = Cardinality(present) ]_vars

\* s1 is configured twice and was registered once; s2 was registered too
C33_Witness ==
    /\ ev.op = "bootstrap" /\ ev.out = "ready"
    /\ Len(config.scenes) = 3
    /\ bridge.registered = <<Generate("s1"), Generate("s2")>>
    /\ Cardinality(DOMAIN accessoryInstances) = 2


(* --------------------- the fast path of read (C34) --------------------- *)

\* C34: a getOn called less than 30000 ms after the remembered activation
\* returns true without any bridge call; a getOn called 30000 ms after it
\* or later issues exactly one getScene call, for its own scene, and no
\* other call
C34_FastPathIssuesNoCall ==
    [][ \A id \in SceneIds :
          (/\ ev'.op = "getOn" /\ ev'.id = id /\ ev'.out \in {"window", "getScene"}
           /\ now' = now /\ lastActivated[id] # None)
            => /\ recalls' = recalls /\ pollFetches' = pollFetches
               /\ IF now - lastActivated[id][1] < 30000
                  THEN ev'.out = "window" /\ ev'.val /\ gets' = gets
                  ELSE /\ ev'.out = "getScene"
                       /\ Len(gets') = Len(gets) + 1
                       /\ \A i \in 1..Len(gets) : gets'[i] = gets[i]
                       /\ gets'[Len(gets')].sceneId = id ]_vars

\* a getOn called exactly 30000 ms after the activation asked the bridge
C34_Witness ==
    /\ ev.op = "getOn" /\ ev.out = "getScene"
    /\ lastActivated[ev.id] # None
    /\ now - lastActivated[ev.id][1] = 30000
    /\ Len(gets) = 1


(* ------------------------- order of bootstrap (C35) -------------------- *)

C36_SetOnlyByOwnSuccess ==
    [][ \A id \in SceneIds :
          /\ (lastActivated'[id] # lastActivated[id] /\ lastActivated'[id] # None)
                => /\ ev'.op = "setOn" /\ ev'.id = id /\ ev'.out = "resolved"
                   /\ Len(recalls[id]) > 0 /\ Head(recalls[id]).sceneId = id
                   /\ lastActivated'[id] = Some(now)
          /\ (ev'.op = "setOn" /\ ev'.id = id /\ ev'.out \in {"recallScene", "rejected"})
                => lastActivated'[id] = lastActivated[id]
          /\ (Len(recalls[id]) > 0 /\ ~(ev'.op = "setOn" /\ ev'.id = id /\ ev'.out = "resolved"))
                => lastActivated'[id] = lastActivated[id]
          /\ ev'.op \in {"getOn", "poll", "revert"} => lastActivated' = lastActivated ]_vars

\* a write(true) on an accessory with no recorded activation was rejected
\* and left none
C36_Witness ==
    /\ ev.op = "setOn" /\ ev.out = "rejected" /\ ev.raised
    /\ lastActivated[ev.id] = None
    /\ hist[ev.id].activatedAt = None


(* ------------------- the pending reversion (C37) ----------------------- *)

\* the step before this one gave a newer result for scene id: a write(true)
\* of its accessory succeeded, or a poll tick pushed active to it
NewerResult(id) ==
    \/ ev.op = "setOn" /\ ev.id = id /\ ev.out = "resolved" /\ ev.val
    \/ /\ ev.op = "poll" /\ ev.out \in {"completed", "threw"}
       /\ id \in Range(listeners)
       /\ \E i \in 1..Len(ev.emitted) :
             /\ ev.emitted[i].sceneId = id /\ ev.emitted[i].isActive
             /\ \A j \in (i + 1)..Len(ev.emitted) : ev.emitted[j].sceneId # id

\* C37: when the reversion of a failed write(true) fires after a newer
\* result for the same scene arrived while it was pending (another
\* write(true) succeeded, or a poll broadcast reported the scene active),
\* it does not set the displayed value to off
C37_ReversionKeepsNewerResult ==
    [][ (timers # <<>> /\ timers' = Tail(timers) /\ ev'.op = "revert"
           /\ NewerResult(Head(timers).id))
          => ev'.val /\ onValue'[Head(timers).id] ]_vars


(* -------------------- accessories and instances (C38) ------------------ *)

\* C38: after a successful bootstrap every accessory left in the accessory
\* map has a HueSceneAccessory instance that listens for broadcasts; a
\* cached accessory of a configured scene that is absent from the bridge is
\* not left in the map without one
C38_EveryAccessoryHasInstance ==
    (ev.op = "bootstrap" /\ ev.out = "ready")
        => \A u \in DOMAIN accessories :
              /\ u \in DOMAIN accessoryInstances
              /\ accessories[u] \in Range(listeners)


(* ------------------ invalid entries and polling (C39) ------------------ *)

\* C39: in every poll tick whose getScenes succeeded, whatever invalid
\* entries (null, or without id or name) config.scenes holds, the loop ends
\* without an error and each valid configured scene that is in the result
\* got its broadcast
C39_InvalidEntriesHarmless ==
    PollFetched =>
        /\ ev.out = "completed"
        /\ \A id \in ConfiguredSceneIds \cap ResultIds(ev.result) :
              \E i \in 1..Len(ev.emitted) :
                  /\ ev.emitted[i].sceneId = id
                  /\ ev.emitted[i].isActive =
                        IsActive(SceneMapGet(ev.result, id)[1])

====
